---- MODULE Spec2Model ----
(***************************************************************************)
(* Model of the whisper messaging application: the session codec of        *)
(* lib/signal-session (deriveKey, encryptMessage, decryptMessage and the   *)
(* sessions table), the messages page that drives it (sendMessage and the  *)
(* realtime INSERT callback) and the prekey bundle fetch of signal-auth.   *)
(*                                                                         *)
(* A JavaScript string is a sequence of UTF-16 code units, a byte array a  *)
(* sequence of numbers 0..255.                                             *)
(***************************************************************************)
EXTENDS Integers, Sequences, FiniteSets, TLC

(***************************************************************************)
(* Bounds of the model                                                     *)
(***************************************************************************)
\* number of chain-advancing derivations applied to one seed
MaxChain == 10
\* longest seed string that is not a session's initial chain key
MaxSeedLen == 2
\* longest plaintext handed to the codec on its own
MaxMsgLen == 2
\* deepest chain position of the chain keys handed to the codec on its own
MaxKeyPos == 1
\* milliseconds the clock can advance during a run
MaxClock == 1
\* sends started during a run, over both clients
MaxSends == 2
\* one-time prekeys published for the user whose bundle is fetched
MaxPreKeys == 2
\* bundles one caller fetches during a run
MaxFetches == 2
\* longest identity key passed to the store, in bytes
MaxKeyBytes == 1
\* store calls started during a run, over both callers
MaxStoreCalls == 3
\* database requests of the page that fail and are logged during a run
MaxFailures == 1
\* the clock of the browser stops after this many half days
MaxTime == 4
\* invite codes created at most
MaxCodes == 2
\* contact requests started at most
MaxRequests == 3

Min(a, b) == IF a < b THEN a ELSE b

(***************************************************************************)
(* String literals of the source, as code units                            *)
(***************************************************************************)
STR_message == <<109, 101, 115, 115, 97, 103, 101>>
STR_chain == <<99, 104, 97, 105, 110>>
STR_mac == <<109, 97, 99>>
STR_initial_chain == <<105, 110, 105, 116, 105, 97, 108, 95, 99, 104, 97, 105, 110>>
STR_temp_shared_secret == <<116, 101, 109, 112, 95, 115, 104, 97, 114, 101, 100, 95, 115, 101, 99, 114, 101, 116, 95>>
STR_initial_chain_key == <<105, 110, 105, 116, 105, 97, 108, 95, 99, 104, 97, 105, 110, 95, 107, 101, 121, 95>>
STR_no_encryption == <<110, 111, 95, 101, 110, 99, 114, 121, 112, 116, 105, 111, 110>>

\* a null (absent) string; -1 is no code unit
NullStr == <<-1>>
\* JavaScript truthiness of a nullable string
Truthy(s) == s # NullStr /\ s # <<>>

(***************************************************************************)
(* Platform functions used by the codec                                    *)
(***************************************************************************)
\* String.prototype.substring(0, n)
Substring0(s, n) == SubSeq(s, 1, Min(n, Len(s)))

\* a ^ b on bytes; NaN (-1) converts to 0 as ToInt32 does
RECURSIVE XorNat(_, _)
XorNat(a, b) ==
  IF a = 0 THEN b
  ELSE IF b = 0 THEN a
  ELSE (((a % 2) + (b % 2)) % 2) + 2 * XorNat(a \div 2, b \div 2)

BitXor(a, b) == XorNat(IF a < 0 THEN 0 ELSE a, IF b < 0 THEN 0 ELSE b)

\* TextEncoder.encode of one code unit (a lone surrogate encodes U+FFFD)
Utf8OfUnit(c) ==
  IF c < 128 THEN <<c>>
  ELSE IF c < 2048 THEN <<192 + (c \div 64), 128 + (c % 64)>>
  ELSE IF c >= 55296 /\ c <= 57343 THEN <<239, 191, 189>>
  ELSE <<224 + (c \div 4096), 128 + ((c \div 64) % 64), 128 + (c % 64)>>

RECURSIVE Utf8Concat(_)
Utf8Concat(s) ==
  IF s = <<>> THEN <<>> ELSE Utf8OfUnit(Head(s)) \o Utf8Concat(Tail(s))

\* new TextEncoder().encode(s); a string of ASCII characters encodes to
\* its own code units
Utf8Encode(s) ==
  IF \A i \in 1..Len(s) : s[i] < 128 THEN s ELSE Utf8Concat(s)

\* the code units of one decoded scalar value
UnitsOfCodePoint(cp) ==
  IF cp < 65536 THEN <<cp>>
  ELSE <<55296 + ((cp - 65536) \div 1024), 56320 + ((cp - 65536) % 1024)>>

\* the UTF-8 decoder of TextDecoder (replacement mode): need = bytes still
\* expected, cp = code point so far, lo..hi = range of the next byte
RECURSIVE Utf8Scan(_, _, _, _, _, _)
Utf8Scan(bytes, i, need, cp, lo, hi) ==
  IF i > Len(bytes) THEN (IF need > 0 THEN <<65533>> ELSE <<>>)
  ELSE LET b == bytes[i] IN
    IF need = 0 THEN
      IF b < 128 THEN <<b>> \o Utf8Scan(bytes, i + 1, 0, 0, 128, 191)
      ELSE IF b >= 194 /\ b <= 223 THEN Utf8Scan(bytes, i + 1, 1, b % 32, 128, 191)
      ELSE IF b >= 224 /\ b <= 239 THEN
        Utf8Scan(bytes, i + 1, 2, b % 16,
                 IF b = 224 THEN 160 ELSE 128, IF b = 237 THEN 159 ELSE 191)
      ELSE IF b >= 240 /\ b <= 244 THEN
        Utf8Scan(bytes, i + 1, 3, b % 8,
                 IF b = 240 THEN 144 ELSE 128, IF b = 244 THEN 143 ELSE 191)
      ELSE <<65533>> \o Utf8Scan(bytes, i + 1, 0, 0, 128, 191)
    ELSE IF b < lo \/ b > hi THEN
      <<65533>> \o Utf8Scan(bytes, i, 0, 0, 128, 191)
    ELSE IF need = 1 THEN
      UnitsOfCodePoint(cp * 64 + (b % 64)) \o Utf8Scan(bytes, i + 1, 0, 0, 128, 191)
    ELSE Utf8Scan(bytes, i + 1, need - 1, cp * 64 + (b % 64), 128, 191)

\* new TextDecoder().decode(bytes): a leading byte order mark is dropped
Utf8Decode(bytes) ==
  LET units == Utf8Scan(bytes, 1, 0, 0, 128, 191)
  IN IF units # <<>> /\ Head(units) = 65279 THEN Tail(units) ELSE units

\* one digit of Number.prototype.toString(16)
HexDigit(n) == IF n < 10 THEN 48 + n ELSE 87 + n

\* bytes.map(b => b.toString(16).padStart(2, '0')).join('')
HexOf(bytes) ==
  [i \in 1..(2 * Len(bytes)) |->
     LET b == bytes[(i + 1) \div 2]
     IN HexDigit(IF i % 2 = 1 THEN b \div 16 ELSE b % 16)]

\* value of a hexadecimal digit character, -1 if it is none
HexValue(c) ==
  IF c >= 48 /\ c <= 57 THEN c - 48
  ELSE IF c >= 97 /\ c <= 102 THEN c - 87
  ELSE IF c >= 65 /\ c <= 70 THEN c - 55
  ELSE -1

\* parseInt(pair, 16) of a string of one or two digit characters:
\* the digits before the first character that is none; NaN (-1) if empty
ParseHexPair(pair) ==
  IF pair = <<>> \/ HexValue(pair[1]) < 0 THEN -1
  ELSE IF Len(pair) < 2 \/ HexValue(pair[2]) < 0 THEN HexValue(pair[1])
  ELSE 16 * HexValue(pair[1]) + HexValue(pair[2])

\* Date.now() + '' : the decimal digits of a millisecond timestamp, t
\* milliseconds after the start of the run
EpochDigits == <<49, 55, 54, 50, 51, 48, 48, 56, 48, 48>>
DateNowString(t) ==
  EpochDigits \o <<48 + ((t \div 100) % 10), 48 + ((t \div 10) % 10), 48 + (t % 10)>>

(***************************************************************************)
(* lib/signal-session: key derivation and the message codec                *)
(***************************************************************************)
deriveKey(inputKey, info) ==
  LET combined == inputKey \o info
      hash == HexOf(Utf8Encode(combined))
  IN Substring0(hash, 64)

encryptMessage(message, chainKey) ==
  LET messageKey == deriveKey(chainKey, STR_message)
      newChainKey == deriveKey(chainKey, STR_chain)
      messageBytes == Utf8Encode(message)
      keyBytes == Utf8Encode(Substring0(messageKey, Len(message)))
      xored == [i \in 1..Len(messageBytes) |->
                  BitXor(messageBytes[i],
                         IF i <= Len(keyBytes) THEN keyBytes[i] ELSE 0)]
  IN [ciphertext |-> HexOf(xored),
      mac |-> Substring0(deriveKey(messageKey, STR_mac), 32),
      newChainKey |-> newChainKey]

\* decryptMessage without the comparison of the tag
decryptMessageUnverified(ciphertext, mac, chainKey) ==
  LET messageKey == deriveKey(chainKey, STR_message)
      cipherBytes == [i \in 1..((Len(ciphertext) + 1) \div 2) |->
                        ParseHexPair(SubSeq(ciphertext, 2 * i - 1,
                                            Min(2 * i, Len(ciphertext))))]
      keyBytes == Utf8Encode(Substring0(messageKey, Len(cipherBytes)))
      messageBytes == [i \in 1..Len(cipherBytes) |->
                         BitXor(cipherBytes[i],
                                IF i <= Len(keyBytes) THEN keyBytes[i] ELSE 0)]
  IN [ok |-> TRUE,
      message |-> Utf8Decode(messageBytes),
      newChainKey |-> deriveKey(chainKey, STR_chain)]

\* the result null is [ok |-> FALSE]
decryptMessage(ciphertext, mac, chainKey) ==
  LET messageKey == deriveKey(chainKey, STR_message)
      newChainKey == deriveKey(chainKey, STR_chain)
      expectedMac == Substring0(deriveKey(messageKey, STR_mac), 32)
      cipherBytes == [i \in 1..((Len(ciphertext) + 1) \div 2) |->
                        ParseHexPair(SubSeq(ciphertext, 2 * i - 1,
                                            Min(2 * i, Len(ciphertext))))]
      keyBytes == Utf8Encode(Substring0(messageKey, Len(cipherBytes)))
      messageBytes == [i \in 1..Len(cipherBytes) |->
                         BitXor(cipherBytes[i],
                                IF i <= Len(keyBytes) THEN keyBytes[i] ELSE 0)]
  IN IF mac # expectedMac
     THEN [ok |-> FALSE]
     ELSE [ok |-> TRUE,
           message |-> Utf8Decode(messageBytes),
           newChainKey |-> newChainKey]

\* the chain key createSession stores for a shared secret
InitialChainKey(sharedSecret) == deriveKey(sharedSecret, STR_initial_chain)

\* the shared secret sendMessage makes up at time t
SharedSecretAt(t) == STR_temp_shared_secret \o DateNowString(t)

\* the chain key after n chain-advancing derivations
RECURSIVE ChainAt(_, _)
ChainAt(seed, n) == IF n = 0 THEN seed ELSE deriveKey(ChainAt(seed, n - 1), STR_chain)

VARIABLES
  kdf,        \* the chain of keys derived so far from one seed
  codec,      \* the envelope passed through the codec on its own
  sessions,   \* table sessions: the rows in insertion order, id = position
  messages,   \* table messages: the rows in insertion order, id = position
  sentLog,    \* for each message row, the plaintext and the chain key used
  send,       \* per client: the sendMessage call in progress
  pending,    \* per client: INSERT events whose callback awaits the session
  handlers,   \* per client: callbacks that await their updateSession
  display,    \* per client: the messages state of the page
  loaded,     \* per client: how many rows loadMessages put into display
  selected,   \* per client: a conversation is selected (and subscribed)
  log,        \* lines written by console.error: failed tag checks, failed requests
  now,        \* milliseconds passed since the start of the run
  prekeys,    \* table prekeys: one-time prekeys of one user, used flag by key_id
  fetch,      \* per caller: the getUserBundle call in progress
  store,      \* the Map of one SignalProtocolStore: value by key
  call,       \* per caller: the store method in progress
  returned,   \* per caller: the store call that returned last, with its result
  ncalls,     \* store calls started so far
  localStorage, \* the browser's localStorage: item by key
  clock,      \* Date.now() of the browser, in half days
  got,        \* what the last getSession() of the login session returned
  inviteCodes, \* table invite_codes: the rows in insertion order, id = position
  contacts,   \* table contacts: the rows as pairs <<user_id, contact_user_id>>
  rpc,        \* per account: the contact request in progress and its last outcome
  nrpc        \* contact requests started so far

appVars == <<sessions, messages, sentLog, send, pending, handlers, display,
             loaded, selected, log, now>>
dirVars == <<prekeys, fetch>>
storeVars == <<store, call, returned, ncalls>>
loginVars == <<localStorage, clock, got>>
contactVars == <<inviteCodes, contacts, rpc, nrpc>>
accountVars == <<loginVars, contactVars>>
vars == <<kdf, codec, appVars, dirVars, storeVars, accountVars>>

(***************************************************************************)
(* The two clients and the sessions table                                  *)
(***************************************************************************)
Users == {"a", "b"}
Peer(u) == IF u = "a" THEN "b" ELSE "a"

\* position of a user id in the order Array.prototype.sort uses
Rank(u) == IF u = "a" THEN 1 ELSE 2

generateSessionId(userId1, userId2) ==
  IF Rank(userId1) <= Rank(userId2)
  THEN <<"session", userId1, userId2>>
  ELSE <<"session", userId2, userId1>>

KdfIdle == [seed |-> <<>>, chain |-> <<>>]
CodecIdle == [pc |-> "idle"]

\* no row
NullSession == [id |-> 0]

\* the values Date.now() can return at this point of the run
Clock == now..Min(now + 1, MaxClock)

\* rows of the pair, in either order of the two ids; .single() gives an
\* error unless there is exactly one
getSession(userId1, userId2) ==
  LET found == {i \in DOMAIN sessions :
                  \/ sessions[i].alice_id = userId1 /\ sessions[i].bob_id = userId2
                  \/ sessions[i].alice_id = userId2 /\ sessions[i].bob_id = userId1}
  IN IF Cardinality(found) = 1 THEN sessions[CHOOSE i \in found : TRUE] ELSE NullSession

\* the row createSession would insert without seeding the receiving chain
NewSessionRowUnseeded(aliceId, bobId, sharedSecret) ==
  LET rootKey == sharedSecret
      initialChainKey == deriveKey(rootKey, STR_initial_chain)
  IN [id |-> Len(sessions) + 1,
      alice_id |-> aliceId,
      bob_id |-> bobId,
      session_id |-> generateSessionId(aliceId, bobId),
      root_key |-> rootKey,
      chain_key_send |-> initialChainKey,
      chain_key_recv |-> NullStr,
      send_counter |-> 0,
      recv_counter |-> 0,
      prev_counter |-> 0]

\* the row createSession inserts
NewSessionRow(aliceId, bobId, sharedSecret) ==
  LET rootKey == sharedSecret
      initialChainKey == deriveKey(rootKey, STR_initial_chain)
  IN [id |-> Len(sessions) + 1,
      alice_id |-> aliceId,
      bob_id |-> bobId,
      session_id |-> generateSessionId(aliceId, bobId),
      root_key |-> rootKey,
      chain_key_send |-> initialChainKey,
      chain_key_recv |-> initialChainKey,
      send_counter |-> 0,
      recv_counter |-> 0,
      prev_counter |-> 0]

\* UNIQUE(alice_id, bob_id, session_id) of table sessions
UniqueViolation(row) ==
  \E i \in DOMAIN sessions :
    /\ sessions[i].alice_id = row.alice_id
    /\ sessions[i].bob_id = row.bob_id
    /\ sessions[i].session_id = row.session_id

\* updateSession, were it to move the root key along with every update
updateSessionRekey(sessionId, updates) ==
  [sessions EXCEPT ![sessionId] =
     [f \in DOMAIN @ |-> IF f \in DOMAIN updates THEN updates[f]
                         ELSE IF f = "root_key" THEN deriveKey(@[f], STR_chain)
                         ELSE @[f]]]

\* table sessions after updateSession(sessionId, updates); the columns
\* established_at and last_used, which the application never reads, are
\* left out of the rows
updateSession(sessionId, updates) ==
  [sessions EXCEPT ![sessionId] =
     [f \in DOMAIN @ |-> IF f \in DOMAIN updates THEN updates[f] ELSE @[f]]]

\* the tag decryptMessage expects under a chain key
ExpectedMac(chainKey) ==
  Substring0(deriveKey(deriveKey(chainKey, STR_message), STR_mac), 32)

\* the plaintexts typed into the page, in the order the sends start:
\* 'hello', 'world', e-acute, and again
AppMessages == <<<<104, 101, 108, 108, 111>>, <<119, 111, 114, 108, 100>>, <<233>>>>

IdleSend == [pc |-> "idle"]

AppInit ==
  /\ sessions = <<>>
  /\ messages = <<>>
  /\ sentLog = <<>>
  /\ send = [u \in Users |-> IdleSend]
  /\ pending = [u \in Users |-> {}]
  /\ handlers = [u \in Users |-> {}]
  /\ display = [u \in Users |-> <<>>]
  /\ loaded = [u \in Users |-> 0]
  /\ selected = [u \in Users |-> FALSE]
  /\ log = {}
  /\ now = 0

DirIdle ==
  /\ prekeys = <<>>
  /\ fetch = <<>>

\* the callers of the store: two asynchronous tasks of one client
Callers == {"t1", "t2"}

IdleCall == [pc |-> "idle"]

\* new Map()
EmptyMap == [k \in {} |-> k]
NoReturn == [op |-> "none"]

\* the store after its constructor: an empty Map
StoreInit ==
  /\ store = EmptyMap
  /\ call = [c \in Callers |-> IdleCall]
  /\ returned = [c \in Callers |-> NoReturn]
  /\ ncalls = 0

\* the accounts that take part in contact requests
Accounts == {"a", "b", "c"}

\* no contact request in progress, none made yet
IdleRpc == [pc |-> "idle", outcome |-> "none"]

\* a browser that has not logged in, and the two tables empty
AccountInit ==
  /\ localStorage = EmptyMap
  /\ clock = 0
  /\ got = NoReturn
  /\ inviteCodes = <<>>
  /\ contacts = {}
  /\ rpc = [u \in Accounts |-> IdleRpc]
  /\ nrpc = 0

\* requests that failed and were logged
LoggedFailures == {e \in log : e.op \in {"createSession", "sendMessage"}}

\* sends that have started: those that inserted their row, those on their
\* way to it, and those given up after a failed request
SendsStarted ==
  Len(messages) + Cardinality({u \in Users : send[u].pc \in {"create", "encrypt"}})
    + Cardinality(LoggedFailures)

(***************************************************************************)
(* The messages page: selecting a conversation                             *)
(***************************************************************************)
\* an element of the messages state
DisplayEntry(msg, content) ==
  [id |-> msg.id, sender_id |-> msg.sender_id, content |-> content]

\* only rows that carry a tag are decrypted that carry a tag
IsEncrypted(msg) == Truthy(msg.mac) /\ msg.mac # STR_no_encryption

\* what loadMessages shows for one row
LoadedContent(u, msg) ==
  IF Truthy(msg.mac) /\ msg.mac # STR_no_encryption
  THEN LET session == getSession(u, Peer(u))
       IN IF session # NullSession
          THEN LET chainKey == IF msg.sender_id = u
                               THEN session.chain_key_send
                               ELSE session.chain_key_recv
               IN IF Truthy(chainKey)
                     /\ decryptMessage(msg.ciphertext, msg.mac, chainKey).ok
                  THEN decryptMessage(msg.ciphertext, msg.mac, chainKey).message
                  ELSE msg.ciphertext
          ELSE msg.ciphertext
  ELSE msg.ciphertext

\* the rows of loadMessages for which decryptMessage logs a MAC failure
LoadedFailures(u) ==
  {i \in DOMAIN messages :
     /\ Truthy(messages[i].mac) /\ messages[i].mac # STR_no_encryption
     /\ getSession(u, Peer(u)) # NullSession
     /\ LET session == getSession(u, Peer(u))
            chainKey == IF messages[i].sender_id = u
                        THEN session.chain_key_send
                        ELSE session.chain_key_recv
        IN Truthy(chainKey) /\ ~decryptMessage(messages[i].ciphertext, messages[i].mac, chainKey).ok}

\* the effect on [selectedConversation, currentUser]: loadMessages and
\* setupRealtimeSubscription
SelectConversation(u) ==
  /\ ~selected[u]
  /\ selected' = [selected EXCEPT ![u] = TRUE]
  /\ display' = [display EXCEPT ![u] =
       [i \in 1..Len(messages) |->
          [id |-> i, sender_id |-> messages[i].sender_id,
           content |-> LoadedContent(u, messages[i])]]]
  /\ loaded' = [loaded EXCEPT ![u] = Len(messages)]
  /\ log' = log \cup {[client |-> u, op |-> "loadMessages", msg |-> i] : i \in LoadedFailures(u)}
  /\ UNCHANGED <<sessions, messages, sentLog, send, pending, handlers, now>>
  /\ UNCHANGED <<kdf, codec, dirVars, storeVars, accountVars>>

(***************************************************************************)
(* The messages page: sendMessage                                          *)
(***************************************************************************)
\* get the session of the pair: await getSignalSession
sendMessage_getSession(u) ==
  /\ selected[u]
  /\ send[u].pc = "idle"
  /\ SendsStarted < MaxSends
  /\ \E newMessage \in {AppMessages[(SendsStarted % Len(AppMessages)) + 1]} :
       LET session == getSession(u, Peer(u))
       IN send' = [send EXCEPT ![u] =
            IF session = NullSession
            THEN [pc |-> "create", newMessage |-> newMessage]
            ELSE [pc |-> "encrypt", newMessage |-> newMessage, session |-> session]]
  /\ UNCHANGED <<sessions, messages, sentLog, pending, handlers, display, loaded,
                 selected, log, now>>
  /\ UNCHANGED <<kdf, codec, dirVars, storeVars, accountVars>>

\* no session was found: await createSession; a failed insert ends the send
sendMessage_createSession(u) ==
  /\ send[u].pc = "create"
  /\ \E t \in Clock :
       LET row == NewSessionRow(u, Peer(u), SharedSecretAt(t))
       IN /\ now' = t
          /\ IF UniqueViolation(row)
             THEN /\ send' = [send EXCEPT ![u] = IdleSend]
                  /\ log' = log \cup {[client |-> u, op |-> "createSession", msg |-> 0]}
                  /\ UNCHANGED sessions
             ELSE /\ sessions' = Append(sessions, row)
                  /\ send' = [send EXCEPT ![u] =
                       [pc |-> "encrypt", newMessage |-> send[u].newMessage, session |-> row]]
                  /\ UNCHANGED log
  /\ UNCHANGED <<messages, sentLog, pending, handlers, display, loaded, selected>>
  /\ UNCHANGED <<kdf, codec, dirVars, storeVars, accountVars>>

\* the envelope sendMessage builds from the session it read
Envelope(session, newMessage, t) ==
  IF Truthy(session.chain_key_send)
  THEN LET encrypted == encryptMessage(newMessage, session.chain_key_send)
       IN [ciphertext |-> encrypted.ciphertext, mac |-> encrypted.mac,
           newChainKey |-> encrypted.newChainKey]
  ELSE [ciphertext |-> newMessage, mac |-> STR_no_encryption,
        newChainKey |-> STR_initial_chain_key \o DateNowString(t)]

\* the row sendMessage inserts into table messages
MessageRow(u, session, envelope) ==
  [id |-> Len(messages) + 1,
   sender_id |-> u,
   recipient_id |-> Peer(u),
   session_id |-> session.id,
   ciphertext |-> envelope.ciphertext,
   mac |-> envelope.mac,
   message_counter |-> session.send_counter + 1]

\* the clients whose subscription of the final page receives an INSERT:
\* the filter lets both directions of the conversation through
Subscribers(row) == {v \in Users : selected[v]}

\* encrypt and insert the envelope: await insert
sendMessage_insert(u) ==
  /\ send[u].pc = "encrypt"
  /\ \E t \in Clock :
       LET session == send[u].session
           envelope == Envelope(session, send[u].newMessage, t)
           row == MessageRow(u, session, envelope)
       IN /\ now' = IF Truthy(session.chain_key_send) THEN now ELSE t
          /\ messages' = Append(messages, row)
          /\ sentLog' = Append(sentLog, [plaintext |-> send[u].newMessage,
                                          chainKey |-> session.chain_key_send])
          /\ pending' = [v \in Users |->
               IF v \in Subscribers(row) THEN pending[v] \cup {row.id} ELSE pending[v]]
          /\ send' = [send EXCEPT ![u] =
               [pc |-> "update", newMessage |-> send[u].newMessage, session |-> session,
                newChainKey |-> envelope.newChainKey, data |-> row]]
  /\ UNCHANGED <<sessions, handlers, display, loaded, selected, log>>
  /\ UNCHANGED <<kdf, codec, dirVars, storeVars, accountVars>>

\* the last step of sendMessage, were it to write back the whole row it read
sendMessage_saveSession(u) ==
  /\ send[u].pc = "update"
  /\ sessions' = [sessions EXCEPT ![send[u].session.id] =
       [send[u].session EXCEPT !.chain_key_send = send[u].newChainKey,
                               !.send_counter = send[u].session.send_counter + 1]]
  /\ send' = [send EXCEPT ![u] = IdleSend]
  /\ UNCHANGED <<messages, sentLog, pending, handlers, display, loaded, selected, log, now>>
  /\ UNCHANGED <<kdf, codec, dirVars, storeVars, accountVars>>

\* persist the advanced sending chain: await updateSession, result unused
sendMessage_updateSession(u) ==
  /\ send[u].pc = "update"
  /\ sessions' = updateSession(send[u].session.id,
                    [chain_key_send |-> send[u].newChainKey,
                     send_counter |-> send[u].session.send_counter + 1])
  /\ send' = [send EXCEPT ![u] = IdleSend]
  /\ UNCHANGED <<messages, sentLog, pending, handlers, display, loaded, selected, log, now>>
  /\ UNCHANGED <<kdf, codec, dirVars, storeVars, accountVars>>

(***************************************************************************)
(* The messages page: the realtime INSERT callback                         *)
(***************************************************************************)
\* the callback, were it to establish a session when it finds none
onInsert_establish(u, id) ==
  /\ id \in pending[u]
  /\ pending' = [pending EXCEPT ![u] = @ \ {id}]
  /\ LET msg == messages[id]
         session == getSession(u, Peer(u))
         usable == IsEncrypted(msg) /\ session # NullSession /\ Truthy(session.chain_key_recv)
         decrypted == IF usable
                      THEN decryptMessage(msg.ciphertext, msg.mac, session.chain_key_recv)
                      ELSE [ok |-> FALSE]
     IN IF decrypted.ok
        THEN /\ handlers' = [handlers EXCEPT ![u] =
                  @ \cup {[msg |-> id, session |-> session, decrypted |-> decrypted]}]
             /\ UNCHANGED <<sessions, display, log>>
        ELSE /\ display' = [display EXCEPT ![u] = Append(@, DisplayEntry(msg, msg.ciphertext))]
             /\ log' = IF usable
                       THEN log \cup {[client |-> u, op |-> "onInsert", msg |-> id]}
                       ELSE log
             /\ sessions' = IF session = NullSession
                            THEN Append(sessions, NewSessionRow(u, Peer(u), SharedSecretAt(now)))
                            ELSE sessions
             /\ UNCHANGED handlers
  /\ UNCHANGED <<messages, sentLog, send, loaded, selected, now>>
  /\ UNCHANGED <<kdf, codec, dirVars, storeVars, accountVars>>

\* the callback reads the session and decrypts: await getSignalSession;
\* without a decrypted message it shows the ciphertext
onInsert_getSession(u, id) ==
  /\ id \in pending[u]
  /\ pending' = [pending EXCEPT ![u] = @ \ {id}]
  /\ LET msg == messages[id]
         session == getSession(u, Peer(u))
         usable == IsEncrypted(msg) /\ session # NullSession /\ Truthy(session.chain_key_recv)
         decrypted == IF usable
                      THEN decryptMessage(msg.ciphertext, msg.mac, session.chain_key_recv)
                      ELSE [ok |-> FALSE]
     IN IF decrypted.ok
        THEN /\ handlers' = [handlers EXCEPT ![u] =
                  @ \cup {[msg |-> id, session |-> session, decrypted |-> decrypted]}]
             /\ UNCHANGED <<display, log>>
        ELSE /\ display' = [display EXCEPT ![u] = Append(@, DisplayEntry(msg, msg.ciphertext))]
             /\ log' = IF usable
                       THEN log \cup {[client |-> u, op |-> "onInsert", msg |-> id]}
                       ELSE log
             /\ UNCHANGED handlers
  /\ UNCHANGED <<sessions, messages, sentLog, send, loaded, selected, now>>
  /\ UNCHANGED <<kdf, codec, dirVars, storeVars, accountVars>>

\* the callback, were it to persist the advanced chain key without the counter
onInsert_updateSessionKeyOnly(u, h) ==
  /\ h \in handlers[u]
  /\ handlers' = [handlers EXCEPT ![u] = @ \ {h}]
  /\ sessions' = updateSession(h.session.id, [chain_key_recv |-> h.decrypted.newChainKey])
  /\ display' = [display EXCEPT ![u] =
       Append(@, DisplayEntry(messages[h.msg], h.decrypted.message))]
  /\ UNCHANGED <<messages, sentLog, send, pending, loaded, selected, log, now>>
  /\ UNCHANGED <<kdf, codec, dirVars, storeVars, accountVars>>

\* the callback persists the advanced receiving chain and shows the message
onInsert_updateSession(u, h) ==
  /\ h \in handlers[u]
  /\ handlers' = [handlers EXCEPT ![u] = @ \ {h}]
  /\ sessions' = updateSession(h.session.id,
                    [chain_key_recv |-> h.decrypted.newChainKey,
                     recv_counter |-> h.session.recv_counter + 1])
  /\ display' = [display EXCEPT ![u] =
       Append(@, DisplayEntry(messages[h.msg], h.decrypted.message))]
  /\ UNCHANGED <<messages, sentLog, send, pending, loaded, selected, log, now>>
  /\ UNCHANGED <<kdf, codec, dirVars, storeVars, accountVars>>

(***************************************************************************)
(* The earlier messages page, which keeps the two chain keys "in sync":    *)
(* its sendMessage and its realtime INSERT callback                        *)
(***************************************************************************)
\* the envelope the earlier sendMessage builds
EnvelopeSync(session, newMessage) ==
  IF Truthy(session.chain_key_send)
  THEN LET encrypted == encryptMessage(newMessage, session.chain_key_send)
       IN [ciphertext |-> encrypted.ciphertext, mac |-> encrypted.mac]
  ELSE [ciphertext |-> newMessage, mac |-> STR_no_encryption]

\* the subscription receives every INSERT; the callback returns at once
\* for rows of other conversations and for rows the client sent itself
SubscribersSync(row) == {v \in Users : selected[v] /\ row.recipient_id = v /\ row.sender_id = Peer(v)}

\* encrypt and insert the envelope: await insert(...).select()
sendMessageSync_insert(u) ==
  /\ send[u].pc = "encrypt"
  /\ LET session == send[u].session
         envelope == EnvelopeSync(session, send[u].newMessage)
         row == MessageRow(u, session, envelope)
     IN /\ messages' = Append(messages, row)
        /\ sentLog' = Append(sentLog, [plaintext |-> send[u].newMessage,
                                        chainKey |-> session.chain_key_send])
        /\ pending' = [v \in Users |->
             IF v \in SubscribersSync(row) THEN pending[v] \cup {row.id} ELSE pending[v]]
        /\ send' = [send EXCEPT ![u] =
             [pc |-> "update", newMessage |-> send[u].newMessage, session |-> session,
              data |-> row]]
  /\ UNCHANGED <<sessions, handlers, display, loaded, selected, log, now>>
  /\ UNCHANGED <<kdf, codec, dirVars, storeVars, accountVars>>

\* persist the counter only, then show the plaintext on the sender's page
sendMessageSync_updateSession(u) ==
  /\ send[u].pc = "update"
  /\ sessions' = updateSession(send[u].session.id,
                    [send_counter |-> send[u].session.send_counter + 1])
  /\ display' = [display EXCEPT ![u] =
       Append(@, DisplayEntry(send[u].data, send[u].newMessage))]
  /\ send' = [send EXCEPT ![u] = IdleSend]
  /\ UNCHANGED <<messages, sentLog, pending, handlers, loaded, selected, log, now>>
  /\ UNCHANGED <<kdf, codec, dirVars, storeVars, accountVars>>

\* the callback reads the session, decrypts and shows the message; it
\* never writes the session
onInsertSync_getSession(u, id) ==
  /\ id \in pending[u]
  /\ pending' = [pending EXCEPT ![u] = @ \ {id}]
  /\ LET msg == messages[id]
         session == getSession(u, Peer(u))
         usable == IsEncrypted(msg) /\ session # NullSession /\ Truthy(session.chain_key_recv)
         decrypted == IF usable
                      THEN decryptMessage(msg.ciphertext, msg.mac, session.chain_key_recv)
                      ELSE [ok |-> FALSE]
     IN /\ display' = [display EXCEPT ![u] =
             Append(@, DisplayEntry(msg, IF decrypted.ok THEN decrypted.message
                                         ELSE msg.ciphertext))]
        /\ log' = IF usable /\ ~decrypted.ok
                  THEN log \cup {[client |-> u, op |-> "onInsert", msg |-> id]}
                  ELSE log
  /\ UNCHANGED <<sessions, messages, sentLog, send, handlers, loaded, selected, now>>
  /\ UNCHANGED <<kdf, codec, dirVars, storeVars, accountVars>>

Init ==
  /\ kdf = KdfIdle
  /\ codec = CodecIdle
  /\ AppInit
  /\ DirIdle
  /\ StoreInit
  /\ AccountInit

NextSync ==
  \/ \E u \in Users : SelectConversation(u)
  \/ \E u \in Users : sendMessage_getSession(u)
  \/ \E u \in Users : sendMessage_createSession(u)
  \/ \E u \in Users : sendMessageSync_insert(u)
  \/ \E u \in Users : sendMessageSync_updateSession(u)
  \/ \E u \in Users : \E id \in pending[u] : onInsertSync_getSession(u, id)

SpecSync == Init /\ [][NextSync]_vars

Next ==
  \/ \E u \in Users : SelectConversation(u)
  \/ \E u \in Users : sendMessage_getSession(u)
  \/ \E u \in Users : sendMessage_createSession(u)
  \/ \E u \in Users : sendMessage_insert(u)
  \/ \E u \in Users : sendMessage_updateSession(u)
  \/ \E u \in Users : \E id \in pending[u] : onInsert_getSession(u, id)
  \/ \E u \in Users : \E h \in handlers[u] : onInsert_updateSession(u, h)

Spec == Init /\ [][Next]_vars

\* C3: within one session no two envelopes are encrypted under the same
\* chain key, hence under the same message key, whatever the interleaving
\* of the sends.
NoTwoSendsShareChainKey ==
  \A i, j \in DOMAIN messages :
    (/\ i # j
     /\ messages[i].session_id = messages[j].session_id
     /\ IsEncrypted(messages[i])
     /\ IsEncrypted(messages[j]))
      => sentLog[i].chainKey # sentLog[j].chainKey

\* C4: a send that encrypted under the chain key it read persists the next
\* chain key, derived with the label 'chain', and the counter plus one: the
\* chain key it leaves behind is not the one it used.
SendAdvancesChain ==
  [][\A u \in Users :
       (send[u].pc = "update" /\ send'[u].pc = "idle" /\ Truthy(send[u].session.chain_key_send))
         => LET old == send[u].session
            IN /\ sessions'[old.id].chain_key_send = deriveKey(old.chain_key_send, STR_chain)
               /\ sessions'[old.id].send_counter = old.send_counter + 1
               /\ sessions'[old.id].chain_key_send # old.chain_key_send]_vars

\* the tag of a pending row does not verify under the receiving chain key
\* the client's callback is about to read
MacMismatch(u, id) ==
  LET session == getSession(u, Peer(u))
  IN /\ IsEncrypted(messages[id])
     /\ session # NullSession
     /\ Truthy(session.chain_key_recv)
     /\ messages[id].mac # ExpectedMac(session.chain_key_recv)

\* C5: a callback whose envelope fails the tag check leaves table sessions
\* as it is, starts no update and shows the ciphertext, not a decryption;
\* and the receiving chain key and counter of a row change only in the step
\* of a callback whose envelope verified under the chain key it read.
FailedDecryptKeepsSession ==
  [][/\ \A u \in Users : \A id \in pending[u] \ pending'[u] :
          MacMismatch(u, id)
            => /\ sessions' = sessions
               /\ handlers'[u] = handlers[u]
               /\ display'[u] = Append(display[u],
                                       DisplayEntry(messages[id], messages[id].ciphertext))
     /\ \A i \in DOMAIN sessions :
          (\/ sessions'[i].chain_key_recv # sessions[i].chain_key_recv
           \/ sessions'[i].recv_counter # sessions[i].recv_counter)
            => \E u \in Users : \E h \in handlers[u] \ handlers'[u] :
                 /\ h.session.id = i
                 /\ messages[h.msg].mac = ExpectedMac(h.session.chain_key_recv)]_vars

\* a callback has rejected an envelope and shown its ciphertext
FailedDecryptHappened ==
  \E e \in log :
    /\ e.op = "onInsert"
    /\ \E k \in DOMAIN display[e.client] :
         /\ display[e.client][k].id = e.msg
         /\ display[e.client][k].content = messages[e.msg].ciphertext

\* client v has handled the rows 1..n by its callback, in this order, and
\* nothing else: the session was established once, v was subscribed before
\* the first send, every row was sent by its peer, each was decrypted to
\* its plaintext and the session's receive counter stands at n
HandledInOrder(v, n) ==
  /\ Len(sessions) = 1
  /\ selected[v]
  /\ loaded[v] = 0
  /\ \A i \in DOMAIN messages : messages[i].sender_id = Peer(v)
  /\ Len(display[v]) = n
  /\ \A i \in 1..n : display[v][i].id = i /\ display[v][i].content = sentLog[i].plaintext
  /\ n > 0 => getSession(v, Peer(v)).recv_counter = n

\* C6: when the receiver handles the envelopes of its peer in arrival order,
\* one completely before the next, the i-th envelope verifies and decrypts
\* to the i-th plaintext, and the receive counter is i once it is handled.
InOrderConversation ==
  [][\A v \in Users :
       /\ \A id \in pending[v] \ pending'[v] :
            (handlers[v] = {} /\ HandledInOrder(v, id - 1))
              => \E h \in handlers'[v] :
                   h.msg = id /\ h.decrypted.message = sentLog[id].plaintext
       /\ \A h \in handlers[v] \ handlers'[v] :
            (handlers[v] = {h} /\ HandledInOrder(v, h.msg - 1))
              => /\ display'[v][h.msg].content = sentLog[h.msg].plaintext
                 /\ sessions'[h.session.id].recv_counter = h.msg]_vars

\* C13: the pair {a, b} has at most one row in table sessions whatever the
\* interleaving of the first sends; the session id does not depend on the
\* order of the two ids, and getSession finds that one row from either side.
OneSessionPerPair ==
  /\ generateSessionId("a", "b") = generateSessionId("b", "a")
  /\ Len(sessions) <= 1
  /\ Len(sessions) = 1
       => /\ getSession("a", "b") = sessions[1]
          /\ getSession("b", "a") = sessions[1]

\* C14: no step lowers the send_counter or the recv_counter of a row of
\* table sessions.
CountersNeverDecrease ==
  [][\A i \in DOMAIN sessions :
       /\ sessions'[i].send_counter >= sessions[i].send_counter
       /\ sessions'[i].recv_counter >= sessions[i].recv_counter]_vars

\* the callback of client u has handled row id without a usable session:
\* the row came by the subscription, nothing was logged, the ciphertext is
\* shown
HandledWithoutSession(u, id) ==
  /\ id > loaded[u]
  /\ IsEncrypted(messages[id])
  /\ [client |-> u, op |-> "onInsert", msg |-> id] \notin log
  /\ \E k \in DOMAIN display[u] :
       display[u][k].id = id /\ display[u][k].content = messages[id].ciphertext

\* C15: a callback that finds no session for its pair creates no row in
\* table sessions, starts no update and shows the ciphertext, which is not
\* the plaintext that was sent; and a row is added to table sessions only by
\* the createSession step of a sendMessage.
DecryptNeverEstablishes ==
  [][/\ \A u \in Users : \A id \in pending[u] \ pending'[u] :
          getSession(u, Peer(u)) = NullSession
            => /\ sessions' = sessions
               /\ handlers'[u] = handlers[u]
               /\ display'[u] = Append(display[u],
                                       DisplayEntry(messages[id], messages[id].ciphertext))
               /\ messages[id].ciphertext # sentLog[id].plaintext
     /\ Len(sessions') > Len(sessions)
          => \E u \in Users : send[u].pc = "create" /\ send'[u].pc = "encrypt"]_vars

\* a callback has found no session and shown the ciphertext
NoSessionAtCallback ==
  \E u \in Users : \E id \in DOMAIN messages :
    /\ HandledWithoutSession(u, id)
    /\ getSession(u, Peer(u)) = NullSession

\* row id reaches the callback of its recipient u ahead of earlier rows:
\* the sender encrypted it at the chain position its counter names, the
\* receiving chain stands at the position recv_counter names, and that
\* position is lower
ArrivesAhead(u, id) ==
  LET session == getSession(u, Peer(u))
      first == InitialChainKey(session.root_key)
  IN /\ Len(sessions) = 1
     /\ IsEncrypted(messages[id])
     /\ messages[id].sender_id = Peer(u)
     /\ sentLog[id].chainKey = ChainAt(first, messages[id].message_counter - 1)
     /\ session.chain_key_recv = ChainAt(first, session.recv_counter)
     /\ session.recv_counter < messages[id].message_counter - 1

\* C17: the callback of the recipient, given a row whose message_counter is
\* ahead of the receiving chain, advances over the missing positions and
\* decrypts the row to the plaintext that was sent.
CounterSelectsChainPosition ==
  [][\A u \in Users : \A id \in pending[u] \ pending'[u] :
       ArrivesAhead(u, id)
         => \E h \in handlers'[u] :
              h.msg = id /\ h.decrypted.message = sentLog[id].plaintext]_vars

\* C24: the client of the user who sent a message never decrypts that
\* message with chain_key_recv, so its callback never advances the
\* receiving chain or recv_counter because of it
SenderNeverReceivesOwn ==
  [][\A u \in Users :
       \A h \in handlers'[u] \ handlers[u] : messages[h.msg].sender_id # u]_vars

sendMessage_createSessionFails(u) ==
  /\ send[u].pc = "create"
  /\ Cardinality(LoggedFailures) < MaxFailures
  /\ send' = [send EXCEPT ![u] = IdleSend]
  /\ log' = log \cup {[client |-> u, op |-> "createSession", msg |-> 0]}
  /\ UNCHANGED <<sessions, messages, sentLog, pending, handlers, display, loaded,
                 selected, now>>
  /\ UNCHANGED <<kdf, codec, dirVars, storeVars, accountVars>>

\* the insert of the envelope, were sendMessage to go on to its
\* updateSession after an error
sendMessage_insertFailsAdvances(u) ==
  /\ send[u].pc = "encrypt"
  /\ Cardinality(LoggedFailures) < MaxFailures
  /\ Truthy(send[u].session.chain_key_send)
  /\ sessions' = updateSession(send[u].session.id,
       [chain_key_send |-> Envelope(send[u].session, send[u].newMessage, now).newChainKey,
        send_counter |-> send[u].session.send_counter + 1])
  /\ send' = [send EXCEPT ![u] = IdleSend]
  /\ log' = log \cup {[client |-> u, op |-> "sendMessage", msg |-> 0]}
  /\ UNCHANGED <<messages, sentLog, pending, handlers, display, loaded, selected, now>>
  /\ UNCHANGED <<kdf, codec, dirVars, storeVars, accountVars>>

\* the insert of the envelope gets an error: sendMessage logs 'Error
\* sending message' and returns
sendMessage_insertFails(u) ==
  /\ send[u].pc = "encrypt"
  /\ Cardinality(LoggedFailures) < MaxFailures
  /\ Truthy(send[u].session.chain_key_send)
  /\ send' = [send EXCEPT ![u] = IdleSend]
  /\ log' = log \cup {[client |-> u, op |-> "sendMessage", msg |-> 0]}
  /\ UNCHANGED <<sessions, messages, sentLog, pending, handlers, display, loaded,
                 selected, now>>
  /\ UNCHANGED <<kdf, codec, dirVars, storeVars, accountVars>>

\* updateSession gets an error from its update and returns false;
\* sendMessage does not look at the result and clears the input
sendMessage_updateSessionFails(u) ==
  /\ send[u].pc = "update"
  /\ send' = [send EXCEPT ![u] = IdleSend]
  /\ UNCHANGED <<sessions, messages, sentLog, pending, handlers, display, loaded,
                 selected, log, now>>
  /\ UNCHANGED <<kdf, codec, dirVars, storeVars, accountVars>>

FailNext ==
  \/ \E u \in Users : SelectConversation(u)
  \/ \E u \in Users : sendMessage_getSession(u)
  \/ \E u \in Users : sendMessage_createSession(u)
  \/ \E u \in Users : sendMessage_createSessionFails(u)
  \/ \E u \in Users : sendMessage_insert(u)
  \/ \E u \in Users : sendMessage_insertFails(u)
  \/ \E u \in Users : sendMessage_updateSession(u)
  \/ \E u \in Users : sendMessage_updateSessionFails(u)
  \/ \E u \in Users : \E id \in pending[u] : onInsert_getSession(u, id)
  \/ \E u \in Users : \E h \in handlers[u] : onInsert_updateSession(u, h)

SpecFail == Init /\ [][FailNext]_vars

\* C21: a createSession that succeeds adds one row whose two chain keys are
\* present and derived from its root key and whose three counters are 0,
\* before any envelope of that session exists, and hands that row to the
\* send; a createSession that fails ends the send and leaves table sessions
\* as it was.
EstablishmentCompleteOrNothing ==
  [][/\ \A i \in DOMAIN sessions' \ DOMAIN sessions :
          /\ Truthy(sessions'[i].chain_key_send)
          /\ Truthy(sessions'[i].chain_key_recv)
          /\ sessions'[i].chain_key_send = deriveKey(sessions'[i].root_key, STR_initial_chain)
          /\ sessions'[i].chain_key_recv = deriveKey(sessions'[i].root_key, STR_initial_chain)
          /\ sessions'[i].send_counter = 0
          /\ sessions'[i].recv_counter = 0
          /\ sessions'[i].prev_counter = 0
          /\ \A m \in DOMAIN messages' : messages'[m].session_id # i
          /\ \E u \in Users :
               /\ send[u].pc = "create"
               /\ send'[u].pc = "encrypt"
               /\ send'[u].session = sessions'[i]
     /\ \A u \in Users :
          (send[u].pc = "create" /\ send'[u].pc = "idle") => sessions' = sessions]_vars

\* a createSession has failed and a later one has succeeded
EstablishedAfterFailure ==
  /\ \E e \in log : e.op = "createSession"
  /\ Len(sessions) >= 1

\* C23: a send whose updateSession did not bring its values into the row
\* reports an error: a line is logged for the client in that step.
StorageErrorReported ==
  [][\A u \in Users :
       (/\ send[u].pc = "update"
        /\ send'[u].pc = "idle"
        /\ \/ sessions'[send[u].session.id].chain_key_send # send[u].newChainKey
           \/ sessions'[send[u].session.id].send_counter # send[u].session.send_counter + 1)
         => \E e \in log' \ log : e.client = u]_vars

\* C26: a sendMessage that ends at its insert, the insert having failed,
\* has added no row to table messages and leaves every row of table
\* sessions as it was; having returned, it makes no update later.
FailedSendKeepsSession ==
  [][\A u \in Users :
       (send[u].pc = "encrypt" /\ send'[u].pc = "idle")
         => /\ sessions' = sessions
            /\ messages' = messages
            /\ send'[u] = IdleSend]_vars

\* the insert of a send has failed on an established session
SendFailedAtInsert ==
  \E e \in log :
    /\ e.op = "sendMessage"
    /\ send[e.client].pc = "idle"
    /\ Len(sessions) >= 1

(***************************************************************************)
(* The messages page opened on a table that already holds the session of   *)
(* the pair; the columns chain_key_send and chain_key_recv are nullable    *)
(***************************************************************************)
\* the values a chain key column of the stored row can hold
StoredChainKeys == {NullStr, InitialChainKey(SharedSecretAt(0))}

EstablishedInit ==
  /\ kdf = KdfIdle
  /\ codec = CodecIdle
  /\ DirIdle
  /\ StoreInit
  /\ AccountInit
  /\ messages = <<>>
  /\ sentLog = <<>>
  /\ send = [u \in Users |-> IdleSend]
  /\ pending = [u \in Users |-> {}]
  /\ handlers = [u \in Users |-> {}]
  /\ display = [u \in Users |-> <<>>]
  /\ loaded = [u \in Users |-> 0]
  /\ selected = [u \in Users |-> FALSE]
  /\ log = {}
  /\ now = 0
  /\ \E ks \in StoredChainKeys, kr \in StoredChainKeys :
       sessions = <<[id |-> 1, alice_id |-> "a", bob_id |-> "b",
                     session_id |-> generateSessionId("a", "b"),
                     root_key |-> SharedSecretAt(0),
                     chain_key_send |-> ks, chain_key_recv |-> kr,
                     send_counter |-> 0, recv_counter |-> 0, prev_counter |-> 0]>>

\* the session is found by every send, so createSession is never called
EstablishedNext ==
  \/ \E u \in Users : SelectConversation(u)
  \/ \E u \in Users : sendMessage_getSession(u)
  \/ \E u \in Users : sendMessage_insert(u)
  \/ \E u \in Users : sendMessage_updateSession(u)
  \/ \E u \in Users : \E id \in pending[u] : onInsert_getSession(u, id)
  \/ \E u \in Users : \E h \in handlers[u] : onInsert_updateSession(u, h)

SpecEstablished == EstablishedInit /\ [][EstablishedNext]_vars

\* C16: a send that read a session without a sending chain key inserts no
\* row into table messages and leaves table sessions as it is; a callback
\* that read a session without a receiving chain key starts no update,
\* leaves table sessions as it is and shows what the row carries.
UninitializedChainFails ==
  [][/\ \A u \in Users :
          (send[u].pc \in {"encrypt", "update"} /\ send'[u] # send[u]
           /\ ~Truthy(send[u].session.chain_key_send))
            => /\ messages' = messages
               /\ sessions' = sessions
     /\ \A u \in Users : \A id \in pending[u] \ pending'[u] :
          (getSession(u, Peer(u)) # NullSession
           /\ ~Truthy(getSession(u, Peer(u)).chain_key_recv))
            => /\ sessions' = sessions
               /\ handlers'[u] = handlers[u]
               /\ display'[u] = Append(display[u],
                                       DisplayEntry(messages[id], messages[id].ciphertext))]_vars

(***************************************************************************)
(* The messages page with an envelope delivered twice: the insert policy   *)
(* of table messages lets anyone insert a row that repeats an earlier one  *)
(***************************************************************************)
\* a copy of row id is inserted: same session, sender, recipient,
\* ciphertext, tag and counter
Replay(id) ==
  /\ SendsStarted < MaxSends
  /\ IsEncrypted(messages[id])
  /\ LET row == [messages[id] EXCEPT !.id = Len(messages) + 1]
     IN /\ messages' = Append(messages, row)
        /\ sentLog' = Append(sentLog, sentLog[id])
        /\ pending' = [v \in Users |->
             IF v \in Subscribers(row) THEN pending[v] \cup {row.id} ELSE pending[v]]
  /\ UNCHANGED <<sessions, send, handlers, display, loaded, selected, log, now>>
  /\ UNCHANGED <<kdf, codec, dirVars, storeVars, accountVars>>

ReplayNext ==
  \/ \E u \in Users : SelectConversation(u)
  \/ \E u \in Users : sendMessage_getSession(u)
  \/ \E u \in Users : sendMessage_createSession(u)
  \/ \E u \in Users : sendMessage_insert(u)
  \/ \E u \in Users : sendMessage_updateSession(u)
  \/ \E u \in Users : \E id \in pending[u] : onInsert_getSession(u, id)
  \/ \E u \in Users : \E h \in handlers[u] : onInsert_updateSession(u, h)
  \/ \E id \in DOMAIN messages : Replay(id)

SpecReplay == Init /\ [][ReplayNext]_vars

\* row id repeats the ciphertext and the tag of an earlier row of its
\* session, which the callback of its recipient u has decrypted
ReplayOfDecrypted(u, id) ==
  \E j \in 1..(id - 1) :
    /\ messages[id].recipient_id = u
    /\ messages[j].session_id = messages[id].session_id
    /\ messages[j].ciphertext = messages[id].ciphertext
    /\ messages[j].mac = messages[id].mac
    /\ IsEncrypted(messages[j])
    /\ j > loaded[u]
    /\ \/ \E h \in handlers[u] : h.msg = j
       \/ \E k \in DOMAIN display[u] :
            display[u][k].id = j /\ display[u][k].content # messages[j].ciphertext

\* C18: the callback of the recipient, given a row that repeats an envelope
\* it has already decrypted, rejects it: it starts no update of the session, so the
\* chain is not advanced a second time, and it shows the ciphertext.
ReplayRejected ==
  [][\A u \in Users : \A id \in pending[u] \ pending'[u] :
       ReplayOfDecrypted(u, id)
         => /\ handlers'[u] = handlers[u]
            /\ sessions' = sessions
            /\ display'[u] = Append(display[u],
                                    DisplayEntry(messages[id], messages[id].ciphertext))]_vars

\* C19: no step changes the root_key of a row of table sessions or removes
\* a row; a new row has the shared secret of its createSession as root_key
\* and the chain key derived from it in both directions.
RootKeyFixed ==
  [][/\ Len(sessions') >= Len(sessions)
     /\ \A i \in DOMAIN sessions : sessions'[i].root_key = sessions[i].root_key
     /\ \A i \in DOMAIN sessions' \ DOMAIN sessions :
          /\ \E t \in 0..MaxClock : sessions'[i].root_key = SharedSecretAt(t)
          /\ sessions'[i].chain_key_send = InitialChainKey(sessions'[i].root_key)
          /\ sessions'[i].chain_key_recv = InitialChainKey(sessions'[i].root_key)]_vars

\* a session has been sent on and received on, and its chains have moved
RootKeyOutlivesChains ==
  \E i \in DOMAIN sessions :
    /\ sessions[i].send_counter > 0
    /\ sessions[i].recv_counter > 0
    /\ sessions[i].chain_key_send # InitialChainKey(sessions[i].root_key)
    /\ sessions[i].chain_key_recv # InitialChainKey(sessions[i].root_key)
    /\ \E t \in 0..MaxClock : sessions[i].root_key = SharedSecretAt(t)

\* C20: the update of a send changes chain_key_send and send_counter of its
\* row to the values the send computed and nothing else in table sessions;
\* the update of a callback changes chain_key_recv and recv_counter to the
\* values the callback computed and nothing else: whichever of the two is
\* written last, the advance of the other stays in the row.
DisjointDirections ==
  [][/\ \A u \in Users :
          (send[u].pc = "update" /\ send'[u].pc = "idle")
            => sessions' = [sessions EXCEPT
                 ![send[u].session.id].chain_key_send = send[u].newChainKey,
                 ![send[u].session.id].send_counter = send[u].session.send_counter + 1]
     /\ \A u \in Users : \A h \in handlers[u] \ handlers'[u] :
          sessions' = [sessions EXCEPT
            ![h.session.id].chain_key_recv = h.decrypted.newChainKey,
            ![h.session.id].recv_counter = h.session.recv_counter + 1]]_vars

\* a send is about to write a row on which a callback has advanced the
\* receiving chain since the send read it
SendOverlapsReceive ==
  \E u \in Users :
    /\ send[u].pc = "update"
    /\ sessions[send[u].session.id].recv_counter > send[u].session.recv_counter
    /\ sessions[send[u].session.id].chain_key_recv # send[u].session.chain_key_recv

(***************************************************************************)
(* signal-auth: getUserBundle, called by the two clients for the bundle of *)
(* one and the same user                                                   *)
(***************************************************************************)
\* no one-time prekey
NoPreKey == 0

IdleFetch == [pc |-> "idle", oneTimePrekey |-> NoPreKey, bundles |-> <<>>]

DirInit ==
  /\ prekeys = [k \in 1..MaxPreKeys |-> [key_id |-> k, used |-> FALSE]]
  /\ fetch = [u \in Users |-> IdleFetch]

\* the one-time prekeys a select with used = false can return
UnusedPreKeys == {k \in DOMAIN prekeys : ~prekeys[k].used}

\* the first two selects: the user's identity key and the signed prekey
getUserBundle_signedPrekey(u) ==
  /\ fetch[u].pc = "idle"
  /\ Len(fetch[u].bundles) < MaxFetches
  /\ fetch' = [fetch EXCEPT ![u].pc = "select"]
  /\ UNCHANGED <<prekeys, kdf, codec, appVars, storeVars, accountVars>>

\* the third select: one unused one-time prekey, whichever row the
\* database returns first; none if all are used
getUserBundle_oneTimePrekey(u) ==
  /\ fetch[u].pc = "select"
  /\ IF UnusedPreKeys = {}
     THEN fetch' = [fetch EXCEPT ![u].pc = "return", ![u].oneTimePrekey = NoPreKey]
     ELSE \E k \in UnusedPreKeys :
            fetch' = [fetch EXCEPT ![u].pc = "mark", ![u].oneTimePrekey = k]
  /\ UNCHANGED <<prekeys, kdf, codec, appVars, storeVars, accountVars>>

\* the database function use_prekey: the row is marked used
use_prekey(key_id) == [prekeys EXCEPT ![key_id].used = TRUE]

\* the prekey that was selected is marked used: await rpc('use_prekey')
getUserBundle_usePrekey(u) ==
  /\ fetch[u].pc = "mark"
  /\ prekeys' = use_prekey(fetch[u].oneTimePrekey)
  /\ fetch' = [fetch EXCEPT ![u].pc = "return"]
  /\ UNCHANGED <<kdf, codec, appVars, storeVars, accountVars>>

\* the bundle is returned to the caller
getUserBundle_return(u) ==
  /\ fetch[u].pc = "return"
  /\ fetch' = [fetch EXCEPT ![u] =
       [pc |-> "idle", oneTimePrekey |-> NoPreKey,
        bundles |-> Append(fetch[u].bundles, fetch[u].oneTimePrekey)]]
  /\ UNCHANGED <<prekeys, kdf, codec, appVars, storeVars, accountVars>>

BundleInit ==
  /\ kdf = KdfIdle
  /\ codec = CodecIdle
  /\ AppInit
  /\ DirInit
  /\ StoreInit
  /\ AccountInit

BundleNext ==
  \/ \E u \in Users : getUserBundle_signedPrekey(u)
  \/ \E u \in Users : getUserBundle_oneTimePrekey(u)
  \/ \E u \in Users : getUserBundle_usePrekey(u)
  \/ \E u \in Users : getUserBundle_return(u)

SpecBundle == BundleInit /\ [][BundleNext]_vars

\* the bundles returned so far that carry one-time prekey k, as
\* (caller, position) pairs
BundlesWith(k) ==
  {<<u, n>> \in Users \X (1..MaxFetches) :
     n <= Len(fetch[u].bundles) /\ fetch[u].bundles[n] = k}

\* C10: over the whole run every one-time prekey is part of at most one
\* returned bundle, also when two fetches for the same user overlap.
OneTimePrekeySingleUse ==
  \A k \in DOMAIN prekeys : Cardinality(BundlesWith(k)) <= 1

(***************************************************************************)
(* signal-protocol: the SignalProtocolStore, one flat Map for identities,  *)
(* prekeys and sessions; an ArrayBuffer is the sequence of its bytes       *)
(***************************************************************************)
\* 'identity_'
STR_identity_ == <<105, 100, 101, 110, 116, 105, 116, 121, 95>>

\* the value undefined; -1 is no byte
Undefined == <<-1>>

\* the remote identifiers used: 'b' and 'b2'
RemoteIds == {<<98>>, <<98, 50>>}

\* the bytes identity keys are made of
KeyBytes == {1, 2}

RECURSIVE BuffersUpTo(_)
BuffersUpTo(n) ==
  IF n = 0 THEN {<<>>}
  ELSE LET shorter == BuffersUpTo(n - 1)
       IN shorter \cup {Append(b, x) : b \in shorter, x \in KeyBytes}

\* the identity keys passed to the store
IdentityKeys == BuffersUpTo(MaxKeyBytes)

\* get(key, defaultValue)
get(key, defaultValue) == IF key \in DOMAIN store THEN store[key] ELSE defaultValue

\* the Map after put(key, value)
put(key, value) ==
  [k \in DOMAIN store \cup {key} |-> IF k = key THEN value ELSE store[k]]

\* the Map after remove(key)
remove(key) == [k \in DOMAIN store \ {key} |-> store[k]]

\* arrayBufferEquals without the comparison of the lengths: view2[i] is
\* undefined past the end of buf2
arrayBufferEqualsNoLength(buf1, buf2) ==
  \A i \in 1..Len(buf1) : i <= Len(buf2) /\ buf1[i] = buf2[i]

arrayBufferEquals(buf1, buf2) ==
  IF Len(buf1) # Len(buf2) THEN FALSE
  ELSE \A i \in 1..Len(buf1) : buf1[i] = buf2[i]

\* a method is entered by caller c: its record, and the note on every call
\* in progress that it now runs alongside another
Enter(c, record) ==
  LET others == {d \in Callers \ {c} : call[d].pc # "idle"}
  IN [d \in Callers |->
        IF d = c THEN [record EXCEPT !.overlapped = others # {}]
        ELSE IF d \in others THEN [call[d] EXCEPT !.overlapped = TRUE]
        ELSE call[d]]

\* saveIdentity up to its first await: existing = await this.get(...)
saveIdentity_get(c, identifier, identityKey) ==
  /\ call[c].pc = "idle"
  /\ ncalls < MaxStoreCalls
  /\ ncalls' = ncalls + 1
  /\ call' = Enter(c, [pc |-> "put", op |-> "saveIdentity", identifier |-> identifier,
                       identityKey |-> identityKey,
                       existing |-> get(STR_identity_ \o identifier, Undefined),
                       overlapped |-> FALSE])
  /\ UNCHANGED <<store, returned>>
  /\ UNCHANGED <<kdf, codec, appVars, dirVars, accountVars>>

\* await this.put(...), then the result: an object is truthy, undefined
\* is not
saveIdentity_put(c) ==
  /\ call[c].pc = "put"
  /\ store' = put(STR_identity_ \o call[c].identifier, call[c].identityKey)
  /\ returned' = [returned EXCEPT ![c] =
       [op |-> "saveIdentity", identifier |-> call[c].identifier,
        overlapped |-> call[c].overlapped,
        result |-> /\ call[c].existing # Undefined
                   /\ ~arrayBufferEquals(call[c].identityKey, call[c].existing)]]
  /\ call' = [call EXCEPT ![c] = IdleCall]
  /\ UNCHANGED ncalls
  /\ UNCHANGED <<kdf, codec, appVars, dirVars, accountVars>>

\* the result of isTrustedIdentity, were there no first-use trust
IsTrustedKnownOnly(trusted, identityKey) ==
  IF trusted = Undefined THEN FALSE ELSE arrayBufferEquals(identityKey, trusted)

\* the result isTrustedIdentity computes from the value it read
IsTrusted(trusted, identityKey) ==
  IF trusted = Undefined THEN TRUE ELSE arrayBufferEquals(identityKey, trusted)

\* isTrustedIdentity up to its await: trusted = await this.get(...)
isTrustedIdentity_get(c, identifier, identityKey) ==
  /\ call[c].pc = "idle"
  /\ ncalls < MaxStoreCalls
  /\ ncalls' = ncalls + 1
  /\ call' = Enter(c, [pc |-> "compare", op |-> "isTrustedIdentity",
                       identifier |-> identifier, identityKey |-> identityKey,
                       trusted |-> get(STR_identity_ \o identifier, Undefined),
                       overlapped |-> FALSE])
  /\ UNCHANGED <<store, returned>>
  /\ UNCHANGED <<kdf, codec, appVars, dirVars, accountVars>>

\* the comparison and the result
isTrustedIdentity_return(c) ==
  /\ call[c].pc = "compare"
  /\ returned' = [returned EXCEPT ![c] =
       [op |-> "isTrustedIdentity", identifier |-> call[c].identifier,
        overlapped |-> call[c].overlapped,
        result |-> IsTrusted(call[c].trusted, call[c].identityKey)]]
  /\ call' = [call EXCEPT ![c] = IdleCall]
  /\ UNCHANGED <<store, ncalls>>
  /\ UNCHANGED <<kdf, codec, appVars, dirVars, accountVars>>

StoreNext ==
  \/ \E c \in Callers, identifier \in RemoteIds, identityKey \in IdentityKeys :
       saveIdentity_get(c, identifier, identityKey)
  \/ \E c \in Callers : saveIdentity_put(c)
  \/ \E c \in Callers, identifier \in RemoteIds, identityKey \in IdentityKeys :
       isTrustedIdentity_get(c, identifier, identityKey)
  \/ \E c \in Callers : isTrustedIdentity_return(c)

StoreSpecInit ==
  /\ kdf = KdfIdle
  /\ codec = CodecIdle
  /\ AppInit
  /\ DirIdle
  /\ StoreInit
  /\ AccountInit

SpecStore == StoreSpecInit /\ [][StoreNext]_vars

\* C11: a saveIdentity call that runs alone (no other store call between
\* its entry and its return) returns true exactly if an identity was
\* recorded for the identifier and differs from the key passed: false for a
\* first identity, true for keyB over keyA, false for keyB over keyB; and
\* the key passed is the identity recorded afterwards.
IdentityPinning ==
  [][\A c \in Callers :
       (call[c].pc = "put" /\ call'[c].pc = "idle" /\ ~call[c].overlapped)
         => LET key == STR_identity_ \o call[c].identifier
            IN /\ returned'[c].result =
                    (key \in DOMAIN store /\ store[key] # call[c].identityKey)
               /\ store'[key] = call[c].identityKey
               /\ \A k \in DOMAIN store \ {key} : store'[k] = store[k]]_vars

\* a saveIdentity that ran alone has reported a changed identity
IdentityChangeReported ==
  \E c \in Callers :
    /\ returned[c].op = "saveIdentity"
    /\ ~returned[c].overlapped
    /\ returned[c].result
    /\ STR_identity_ \o returned[c].identifier \in DOMAIN store

\* C12: an isTrustedIdentity call that runs alone returns true exactly if
\* no identity is recorded for the identifier or the recorded identity is
\* the key passed, byte for byte; and no step of it changes the store.
TrustOnFirstUseOrMatch ==
  [][\A c \in Callers :
       /\ (call[c].pc = "compare" /\ call'[c].pc = "idle" /\ ~call[c].overlapped)
            => LET key == STR_identity_ \o call[c].identifier
               IN returned'[c].result =
                    (key \notin DOMAIN store \/ store[key] = call[c].identityKey)
       /\ (call[c].pc # call'[c].pc /\ "compare" \in {call[c].pc, call'[c].pc})
            => store' = store]_vars

\* an isTrustedIdentity that ran alone has refused a key that differs from
\* the recorded identity
MismatchRefused ==
  \E c \in Callers :
    /\ returned[c].op = "isTrustedIdentity"
    /\ ~returned[c].overlapped
    /\ ~returned[c].result
    /\ STR_identity_ \o returned[c].identifier \in DOMAIN store

(***************************************************************************)
(* signal-protocol: the prekey and session entries of the store. Each of   *)
(* these methods makes one access to the Map, so each is one step.         *)
(***************************************************************************)
\* 'prekey_', 'signedprekey_', 'session_', 'registrationId'
STR_prekey_ == <<112, 114, 101, 107, 101, 121, 95>>
STR_signedprekey_ == <<115, 105, 103, 110, 101, 100, 112, 114, 101, 107, 101, 121, 95>>
STR_session_ == <<115, 101, 115, 115, 105, 111, 110, 95>>
STR_registrationId == <<114, 101, 103, 105, 115, 116, 114, 97, 116, 105, 111, 110, 73, 100>>
STR_NaN == <<78, 97, 78>>

\* String(n) of a number below 100; NaN is -1
DecimalOf(n) ==
  IF n < 0 THEN STR_NaN
  ELSE IF n < 10 THEN <<48 + n>>
  ELSE <<48 + (n \div 10), 48 + (n % 10)>>

\* parseInt(s): the value of the leading decimal digits, NaN (-1) if none
RECURSIVE ParseDigits(_, _)
ParseDigits(s, acc) ==
  IF s = <<>> \/ Head(s) < 48 \/ Head(s) > 57 THEN acc
  ELSE ParseDigits(Tail(s), 10 * (IF acc < 0 THEN 0 ELSE acc) + (Head(s) - 48))

parseInt(s) == ParseDigits(s, -1)

\* the ids of the prekeys that are generated
PreKeyIds == 1..MaxPreKeys

\* a keyId argument: a number, or a string holding its decimal digits
KeyIdArgs ==
  {[isString |-> FALSE, n |-> i, s |-> <<>>] : i \in PreKeyIds}
    \cup {[isString |-> TRUE, n |-> 0, s |-> DecimalOf(i)] : i \in PreKeyIds}

\* typeof keyId === 'string' ? parseInt(keyId) : keyId
IdOf(keyId) == IF keyId.isString THEN parseInt(keyId.s) ELSE keyId.n

\* the key pair generated for an id, with the field the store drops on load
KeyPairOf(id) == [pubKey |-> <<id>>, privKey |-> <<id, id>>, keyId |-> id]

\* the session record stored for an identifier
RecordOf(identifier) == [remote |-> identifier, established |-> TRUE]

\* what a load method returns for a key: pubKey and privKey of the entry,
\* or undefined if there is none (an entry is an object, hence truthy)
Loaded(op, key) ==
  IF key \in DOMAIN store
  THEN [op |-> op, key |-> key, overlapped |-> FALSE, found |-> TRUE,
        result |-> [pubKey |-> store[key].pubKey, privKey |-> store[key].privKey]]
  ELSE [op |-> op, key |-> key, overlapped |-> FALSE, found |-> FALSE,
        result |-> Undefined]

\* what a method without a result returns
Done(op, key) ==
  [op |-> op, key |-> key, overlapped |-> FALSE, found |-> FALSE, result |-> Undefined]

storePreKey(c, keyId, keyPair) ==
  /\ call[c].pc = "idle"
  /\ store' = put(STR_prekey_ \o DecimalOf(IdOf(keyId)), keyPair)
  /\ returned' = [returned EXCEPT ![c] = Done("storePreKey", STR_prekey_ \o DecimalOf(IdOf(keyId)))]
  /\ UNCHANGED <<call, ncalls>>
  /\ UNCHANGED <<kdf, codec, appVars, dirVars, accountVars>>

loadPreKey(c, keyId) ==
  /\ call[c].pc = "idle"
  /\ returned' = [returned EXCEPT ![c] = Loaded("loadPreKey", STR_prekey_ \o DecimalOf(IdOf(keyId)))]
  /\ UNCHANGED <<store, call, ncalls>>
  /\ UNCHANGED <<kdf, codec, appVars, dirVars, accountVars>>

\* removePreKey, were it to leave the entry in place
removePreKeyKeeps(c, keyId) ==
  /\ call[c].pc = "idle"
  /\ store' = store
  /\ returned' = [returned EXCEPT ![c] = Done("removePreKey", STR_prekey_ \o DecimalOf(IdOf(keyId)))]
  /\ UNCHANGED <<call, ncalls>>
  /\ UNCHANGED <<kdf, codec, appVars, dirVars, accountVars>>

removePreKey(c, keyId) ==
  /\ call[c].pc = "idle"
  /\ store' = remove(STR_prekey_ \o DecimalOf(IdOf(keyId)))
  /\ returned' = [returned EXCEPT ![c] = Done("removePreKey", STR_prekey_ \o DecimalOf(IdOf(keyId)))]
  /\ UNCHANGED <<call, ncalls>>
  /\ UNCHANGED <<kdf, codec, appVars, dirVars, accountVars>>

storeSignedPreKey(c, keyId, keyPair) ==
  /\ call[c].pc = "idle"
  /\ store' = put(STR_signedprekey_ \o DecimalOf(IdOf(keyId)), keyPair)
  /\ returned' = [returned EXCEPT ![c] =
       Done("storeSignedPreKey", STR_signedprekey_ \o DecimalOf(IdOf(keyId)))]
  /\ UNCHANGED <<call, ncalls>>
  /\ UNCHANGED <<kdf, codec, appVars, dirVars, accountVars>>

loadSignedPreKey(c, keyId) ==
  /\ call[c].pc = "idle"
  /\ returned' = [returned EXCEPT ![c] =
       Loaded("loadSignedPreKey", STR_signedprekey_ \o DecimalOf(IdOf(keyId)))]
  /\ UNCHANGED <<store, call, ncalls>>
  /\ UNCHANGED <<kdf, codec, appVars, dirVars, accountVars>>

removeSignedPreKey(c, keyId) ==
  /\ call[c].pc = "idle"
  /\ store' = remove(STR_signedprekey_ \o DecimalOf(IdOf(keyId)))
  /\ returned' = [returned EXCEPT ![c] =
       Done("removeSignedPreKey", STR_signedprekey_ \o DecimalOf(IdOf(keyId)))]
  /\ UNCHANGED <<call, ncalls>>
  /\ UNCHANGED <<kdf, codec, appVars, dirVars, accountVars>>

storeSession(c, identifier, record) ==
  /\ call[c].pc = "idle"
  /\ store' = put(STR_session_ \o identifier, record)
  /\ returned' = [returned EXCEPT ![c] = Done("storeSession", STR_session_ \o identifier)]
  /\ UNCHANGED <<call, ncalls>>
  /\ UNCHANGED <<kdf, codec, appVars, dirVars, accountVars>>

\* loadSession returns the entry as it is, or undefined
loadSession(c, identifier) ==
  /\ call[c].pc = "idle"
  /\ returned' = [returned EXCEPT ![c] =
       [op |-> "loadSession", key |-> STR_session_ \o identifier, overlapped |-> FALSE,
        found |-> STR_session_ \o identifier \in DOMAIN store,
        result |-> get(STR_session_ \o identifier, Undefined)]]
  /\ UNCHANGED <<store, call, ncalls>>
  /\ UNCHANGED <<kdf, codec, appVars, dirVars, accountVars>>

removeSession(c, identifier) ==
  /\ call[c].pc = "idle"
  /\ store' = remove(STR_session_ \o identifier)
  /\ returned' = [returned EXCEPT ![c] = Done("removeSession", STR_session_ \o identifier)]
  /\ UNCHANGED <<call, ncalls>>
  /\ UNCHANGED <<kdf, codec, appVars, dirVars, accountVars>>

\* String.prototype.startsWith
StartsWith(s, prefix) ==
  Len(prefix) <= Len(s) /\ SubSeq(s, 1, Len(prefix)) = prefix

\* the keys are listed first, then those with the prefix are removed one
\* by one; remove is a Map.delete behind an await, and nothing the loop
\* reads changes between the steps
removeAllSessions(c, identifier) ==
  /\ call[c].pc = "idle"
  /\ store' = [k \in {k \in DOMAIN store : ~StartsWith(k, STR_session_ \o identifier)} |->
                 store[k]]
  /\ returned' = [returned EXCEPT ![c] = Done("removeAllSessions", STR_session_ \o identifier)]
  /\ UNCHANGED <<call, ncalls>>
  /\ UNCHANGED <<kdf, codec, appVars, dirVars, accountVars>>

\* the store after initializeUser and one saveIdentity: the registration
\* id and the identity recorded for 'b'
KeysInit ==
  /\ kdf = KdfIdle
  /\ codec = CodecIdle
  /\ AppInit
  /\ DirIdle
  /\ store = [k \in {STR_registrationId, STR_identity_ \o <<98>>} |->
                IF k = STR_registrationId THEN <<7>> ELSE <<1>>]
  /\ call = [c \in Callers |-> IdleCall]
  /\ returned = [c \in Callers |-> NoReturn]
  /\ ncalls = 0
  /\ AccountInit

KeysNext ==
  \/ \E c \in Callers, keyId \in KeyIdArgs : storePreKey(c, keyId, KeyPairOf(IdOf(keyId)))
  \/ \E c \in Callers, keyId \in KeyIdArgs : loadPreKey(c, keyId)
  \/ \E c \in Callers, keyId \in KeyIdArgs : removePreKey(c, keyId)
  \/ \E c \in Callers, keyId \in KeyIdArgs : storeSignedPreKey(c, keyId, KeyPairOf(IdOf(keyId)))
  \/ \E c \in Callers, keyId \in KeyIdArgs : loadSignedPreKey(c, keyId)
  \/ \E c \in Callers, keyId \in KeyIdArgs : removeSignedPreKey(c, keyId)
  \/ \E c \in Callers, identifier \in RemoteIds : storeSession(c, identifier, RecordOf(identifier))
  \/ \E c \in Callers, identifier \in RemoteIds : loadSession(c, identifier)
  \/ \E c \in Callers, identifier \in RemoteIds : removeSession(c, identifier)
  \/ \E c \in Callers, identifier \in RemoteIds : removeAllSessions(c, identifier)

SpecKeys == KeysInit /\ [][KeysNext]_vars

LoadOps == {"loadPreKey", "loadSignedPreKey", "loadSession"}
StoreOps == {"storePreKey", "storeSignedPreKey", "storeSession"}
RemoveOps == {"removePreKey", "removeSignedPreKey", "removeSession"}

\* C22: a load returns a key pair or a session only for a key that is in
\* the store, and then the stored one; a key is in the store only from a
\* store call for it until a remove call for it, so that an id never
\* stored, or removed and not stored again, cannot be loaded
LoadOnlyWhatIsStored ==
  [][\A c \in Callers :
       returned'[c] # returned[c] =>
         /\ returned'[c].op \in LoadOps =>
              /\ returned'[c].found <=> returned'[c].key \in DOMAIN store
              /\ returned'[c].found /\ returned'[c].op # "loadSession" =>
                   /\ returned'[c].result.pubKey = store[returned'[c].key].pubKey
                   /\ returned'[c].result.privKey = store[returned'[c].key].privKey
              /\ store' = store
         /\ returned'[c].op \in RemoveOps => returned'[c].key \notin DOMAIN store'
         /\ \A k \in DOMAIN store' \ DOMAIN store :
              returned'[c].op \in StoreOps /\ returned'[c].key = k]_vars

\* a load of a one-time prekey that another call has removed finds nothing
LoadAfterRemove ==
  /\ returned["t1"].op = "removePreKey"
  /\ returned["t2"].op = "loadPreKey"
  /\ returned["t2"].key = returned["t1"].key
  /\ ~returned["t2"].found
  /\ STR_registrationId \in DOMAIN store

\* C27: removeAllSessions(identifier) removes the session entry of that
\* identifier and leaves every other entry of the store as it was
RemoveAllSessionsFrame ==
  [][\A c \in Callers :
       returned'[c] # returned[c] /\ returned'[c].op = "removeAllSessions" =>
         /\ returned'[c].key \notin DOMAIN store'
         /\ \A k \in DOMAIN store :
              k # returned'[c].key => k \in DOMAIN store' /\ store'[k] = store[k]]_vars

(***************************************************************************)
(* auth: the login session kept in localStorage. The three functions are   *)
(* synchronous, so each is one step of the browser.                        *)
(***************************************************************************)
\* 'whisper_signal_session'
SESSION_KEY == <<119, 104, 105, 115, 112, 101, 114, 95, 115, 105, 103, 110, 97, 108, 95, 115, 101, 115, 115, 105, 111, 110>>

\* 24 * 60 * 60 * 1000 ms, in half days
SessionLifetime == 2

\* the users that log in on this browser
LoginUsers == {"a", "b"}

\* Date.now() moves on
Tick ==
  /\ clock < MaxTime
  /\ clock' = clock + 1
  /\ UNCHANGED <<localStorage, got>>
  /\ UNCHANGED <<kdf, codec, appVars, dirVars, storeVars, contactVars>>

\* saveSession(user), were the stored session to carry no expiry that passes
auth_saveSessionForever(user) ==
  /\ localStorage' = [k \in DOMAIN localStorage \cup {SESSION_KEY} |->
       IF k = SESSION_KEY
       THEN [user |-> user, token |-> "token", expires |-> MaxTime + SessionLifetime]
       ELSE localStorage[k]]
  /\ UNCHANGED <<clock, got>>
  /\ UNCHANGED <<kdf, codec, appVars, dirVars, storeVars, contactVars>>

\* saveSession(user): the item is the JSON text of {user, token, expires}
auth_saveSession(user) ==
  /\ localStorage' = [k \in DOMAIN localStorage \cup {SESSION_KEY} |->
       IF k = SESSION_KEY
       THEN [user |-> user, token |-> "token", expires |-> clock + SessionLifetime]
       ELSE localStorage[k]]
  /\ UNCHANGED <<clock, got>>
  /\ UNCHANGED <<kdf, codec, appVars, dirVars, storeVars, contactVars>>

\* localStorage.removeItem(SESSION_KEY)
RemoveItem(key) == [k \in DOMAIN localStorage \ {key} |-> localStorage[k]]

\* clearSession()
auth_clearSession ==
  /\ localStorage' = RemoveItem(SESSION_KEY)
  /\ UNCHANGED <<clock, got>>
  /\ UNCHANGED <<kdf, codec, appVars, dirVars, storeVars, contactVars>>

\* getSession(): null without an item; null and the item removed when
\* Date.now() > session.expires; else the user of the item
auth_getSession ==
  /\ IF SESSION_KEY \notin DOMAIN localStorage
     THEN /\ got' = [op |-> "getSession", user |-> "null", cleared |-> FALSE, at |-> clock]
          /\ UNCHANGED localStorage
     ELSE IF clock > localStorage[SESSION_KEY].expires
     THEN /\ got' = [op |-> "getSession", user |-> "null", cleared |-> TRUE, at |-> clock]
          /\ localStorage' = RemoveItem(SESSION_KEY)
     ELSE /\ got' = [op |-> "getSession", user |-> localStorage[SESSION_KEY].user,
                     cleared |-> FALSE, at |-> clock]
          /\ UNCHANGED localStorage
  /\ UNCHANGED clock
  /\ UNCHANGED <<kdf, codec, appVars, dirVars, storeVars, contactVars>>

LoginNext ==
  \/ Tick
  \/ \E user \in LoginUsers : auth_saveSession(user)
  \/ auth_clearSession
  \/ auth_getSession

SpecLogin == Init /\ [][LoginNext]_vars

\* C30: getSession() returns a user only from a stored login session whose
\* expiry has not passed, and that session's user; a getSession() after the
\* expiry returns null and removes the stored session; a session is stored
\* only by saveSession, which sets its expiry 24 hours ahead, so that every
\* later getSession() returns null until saveSession is called again
LoginSessionExpires ==
  [][/\ got' # got =>
          /\ got'.user # "null" =>
               /\ SESSION_KEY \in DOMAIN localStorage
               /\ clock <= localStorage[SESSION_KEY].expires
               /\ got'.user = localStorage[SESSION_KEY].user
               /\ localStorage' = localStorage
          /\ got'.user = "null" => SESSION_KEY \notin DOMAIN localStorage'
          /\ got'.cleared <=>
               SESSION_KEY \in DOMAIN localStorage /\ clock > localStorage[SESSION_KEY].expires
     /\ SESSION_KEY \in DOMAIN localStorage' /\ localStorage' # localStorage =>
          /\ localStorage'[SESSION_KEY].expires = clock + SessionLifetime
          /\ got' = got]_vars

\* a getSession() after the expiry returned null and the session is gone
ExpiredSessionCleared ==
  /\ got # NoReturn
  /\ got.cleared
  /\ got.user = "null"
  /\ SESSION_KEY \notin DOMAIN localStorage

(***************************************************************************)
(* secure-contacts: invite codes and the contact relation. An rpc runs as  *)
(* one transaction at the default isolation level (read committed): each   *)
(* of its statements reads what is committed when the statement starts,    *)
(* and its writes become visible together when it commits.                 *)
(***************************************************************************)
\* INTERVAL '24 hours', in half days
InviteLifetime == 2

\* the codes a requester may type: those of the rows that can exist
Codes == 1..MaxCodes

\* create_invite_code(p_user_id): the unused codes of the user are marked
\* used and a row with a fresh code is inserted
create_invite_code(u) ==
  /\ rpc[u].pc = "idle"
  /\ Len(inviteCodes) < MaxCodes
  /\ inviteCodes' =
       Append([i \in DOMAIN inviteCodes |->
                 IF inviteCodes[i].user_id = u /\ ~inviteCodes[i].used
                 THEN [inviteCodes[i] EXCEPT !.used = TRUE]
                 ELSE inviteCodes[i]],
              [id |-> Len(inviteCodes) + 1, user_id |-> u, code |-> Len(inviteCodes) + 1,
               expires_at |-> clock + InviteLifetime, used |-> FALSE, used_by |-> "null"])
  /\ UNCHANGED <<contacts, rpc>>
  /\ UNCHANGED nrpc
  /\ UNCHANGED <<kdf, codec, appVars, dirVars, storeVars, loginVars>>

\* the rows SELECT * FROM invite_codes WHERE code = p_code AND used = FALSE
\* AND expires_at > NOW() finds
ValidInvites(code) ==
  {i \in DOMAIN inviteCodes :
     inviteCodes[i].code = code /\ ~inviteCodes[i].used /\ inviteCodes[i].expires_at > clock}

\* use_invite_code: find the valid invite code; it must not be one's own
use_invite_code_select(u, code) ==
  /\ rpc[u].pc = "idle"
  /\ nrpc < MaxRequests
  /\ nrpc' = nrpc + 1
  /\ rpc' = [rpc EXCEPT ![u] =
       IF ValidInvites(code) = {}
       THEN [pc |-> "idle", outcome |-> "Invalid or expired invite code"]
       ELSE LET invite_record == inviteCodes[CHOOSE i \in ValidInvites(code) : TRUE]
            IN IF invite_record.user_id = u
               THEN [pc |-> "idle", outcome |-> "Cannot add yourself as contact"]
               ELSE [pc |-> "exists", outcome |-> rpc[u].outcome,
                     invite_record |-> invite_record]]
  /\ UNCHANGED <<inviteCodes, contacts>>
  /\ UNCHANGED <<kdf, codec, appVars, dirVars, storeVars, loginVars>>

\* use_invite_code: check if already contacts
use_invite_code_exists(u) ==
  /\ rpc[u].pc = "exists"
  /\ rpc' = [rpc EXCEPT ![u] =
       IF <<u, rpc[u].invite_record.user_id>> \in contacts
       THEN [pc |-> "idle", outcome |-> "Already in contacts"]
       ELSE [rpc[u] EXCEPT !.pc = "write"]]
  /\ UNCHANGED <<inviteCodes, contacts>>
  /\ UNCHANGED nrpc
  /\ UNCHANGED <<kdf, codec, appVars, dirVars, storeVars, loginVars>>

\* use_invite_code: mark the code used, insert the two contact rows and
\* commit; a row that exists already violates UNIQUE(user_id,
\* contact_user_id), the transaction is rolled back and the rpc reports it
use_invite_code_write(u) ==
  /\ rpc[u].pc = "write"
  /\ LET invite_record == rpc[u].invite_record
         rows == {<<u, invite_record.user_id>>, <<invite_record.user_id, u>>}
     IN IF rows \cap contacts # {}
        THEN /\ rpc' = [rpc EXCEPT ![u] = [pc |-> "idle", outcome |-> "error"]]
             /\ UNCHANGED <<inviteCodes, contacts>>
        ELSE /\ inviteCodes' = [inviteCodes EXCEPT ![invite_record.id] =
                  [@ EXCEPT !.used = TRUE, !.used_by = u]]
             /\ contacts' = contacts \cup rows
             /\ rpc' = [rpc EXCEPT ![u] =
                  [pc |-> "idle", outcome |-> "success",
                   code |-> invite_record.code]]
  /\ UNCHANGED nrpc
  /\ UNCHANGED <<kdf, codec, appVars, dirVars, storeVars, loginVars>>

\* removeContact: the first delete request, user -> contact
removeContact_delete1(u, contactUserId) ==
  /\ rpc[u].pc = "idle"
  /\ nrpc < MaxRequests
  /\ nrpc' = nrpc + 1
  /\ contactUserId # u
  /\ contacts' = contacts \ {<<u, contactUserId>>}
  /\ rpc' = [rpc EXCEPT ![u] =
       [pc |-> "delete2", outcome |-> rpc[u].outcome,
        contactUserId |-> contactUserId,
        error1 |-> FALSE]]
  /\ UNCHANGED inviteCodes
  /\ UNCHANGED <<kdf, codec, appVars, dirVars, storeVars, loginVars>>

\* the first delete request fails: error1 is set and nothing is deleted
removeContact_delete1Fails(u, contactUserId) ==
  /\ rpc[u].pc = "idle"
  /\ nrpc < MaxRequests
  /\ nrpc' = nrpc + 1
  /\ contactUserId # u
  /\ rpc' = [rpc EXCEPT ![u] =
       [pc |-> "delete2", outcome |-> rpc[u].outcome,
        contactUserId |-> contactUserId,
        error1 |-> TRUE]]
  /\ UNCHANGED <<inviteCodes, contacts>>
  /\ UNCHANGED <<kdf, codec, appVars, dirVars, storeVars, loginVars>>

\* the second delete request, contact -> user; returns !error1 && !error2
removeContact_delete2(u) ==
  /\ rpc[u].pc = "delete2"
  /\ contacts' = contacts \ {<<rpc[u].contactUserId, u>>}
  /\ rpc' = [rpc EXCEPT ![u] =
       [pc |-> "idle", outcome |-> IF rpc[u].error1 THEN "false" ELSE "true"]]
  /\ UNCHANGED inviteCodes
  /\ UNCHANGED nrpc
  /\ UNCHANGED <<kdf, codec, appVars, dirVars, storeVars, loginVars>>

\* the second delete request fails: nothing is deleted and false is returned
removeContact_delete2Fails(u) ==
  /\ rpc[u].pc = "delete2"
  /\ rpc' = [rpc EXCEPT ![u] = [pc |-> "idle", outcome |-> "false"]]
  /\ UNCHANGED <<inviteCodes, contacts>>
  /\ UNCHANGED nrpc
  /\ UNCHANGED <<kdf, codec, appVars, dirVars, storeVars, loginVars>>

ContactsNext ==
  \/ Tick
  \/ \E u \in Accounts : create_invite_code(u)
  \/ \E u \in Accounts, code \in Codes : use_invite_code_select(u, code)
  \/ \E u \in Accounts : use_invite_code_exists(u)
  \/ \E u \in Accounts : use_invite_code_write(u)
  \/ \E u \in Accounts, contactUserId \in Accounts : removeContact_delete1(u, contactUserId)
  \/ \E u \in Accounts, contactUserId \in Accounts : removeContact_delete1Fails(u, contactUserId)
  \/ \E u \in Accounts : removeContact_delete2(u)
  \/ \E u \in Accounts : removeContact_delete2Fails(u)

SpecContacts == Init /\ [][ContactsNext]_vars

\* C28: an invite code is used once: a use_invite_code call succeeds and
\* adds contact rows only for a code that no call has used before it
InviteCodeSingleUse ==
  [][\A u \in Accounts :
       rpc[u].pc = "write" /\ rpc'[u].outcome = "success" =>
         inviteCodes[rpc[u].invite_record.id].used_by = "null"]_vars

\* C29: whenever no removeContact is between its two delete requests, a
\* contact row (a, b) exists if and only if the row (b, a) exists
ContactsBidirectional ==
  (\A u \in Accounts : rpc[u].pc # "delete2")
    => \A row \in contacts : <<row[2], row[1]>> \in contacts

(***************************************************************************)
(* Key derivation on its own: a chain of keys derived from one seed        *)
(***************************************************************************)
\* characters of the strings tried: 'a', '3', e-acute
Alphabet == {97, 51, 233}

RECURSIVE StringsUpTo(_)
StringsUpTo(n) ==
  IF n = 0 THEN {<<>>}
  ELSE LET shorter == StringsUpTo(n - 1)
       IN shorter \cup {Append(s, c) : s \in shorter, c \in Alphabet}

Seeds ==
  {InitialChainKey(SharedSecretAt(t)) : t \in 0..MaxClock} \cup StringsUpTo(MaxSeedLen)

KdfInit ==
  /\ \E s \in Seeds : kdf = [seed |-> s, chain |-> <<s>>]
  /\ codec = CodecIdle
  /\ AppInit
  /\ DirIdle
  /\ StoreInit
  /\ AccountInit

\* one more use of the chain-advancing derivation of encryptMessage
KdfAdvance ==
  /\ Len(kdf.chain) <= MaxChain
  /\ kdf' = [kdf EXCEPT !.chain = Append(@, deriveKey(@[Len(@)], STR_chain))]
  /\ UNCHANGED <<codec, appVars, dirVars, storeVars, accountVars>>

KdfNext == KdfAdvance

SpecKdf == KdfInit /\ [][KdfNext]_vars

\* C7: no chain key of a derivation sequence equals an earlier chain key of
\* the same sequence.
ChainKeysNeverRepeat ==
  \A i, j \in 1..Len(kdf.chain) : i # j => kdf.chain[i] # kdf.chain[j]

\* C8: the message keys derived at two different chain positions differ.
MessageKeysUnique ==
  \A i, j \in 1..Len(kdf.chain) :
    i # j => deriveKey(kdf.chain[i], STR_message) # deriveKey(kdf.chain[j], STR_message)

\* C9: at every chain position the message key differs from the next chain
\* key, so neither derivation gives away the other.
MessageKeyIsNotNextChainKey ==
  \A i \in 1..Len(kdf.chain) :
    deriveKey(kdf.chain[i], STR_message) # deriveKey(kdf.chain[i], STR_chain)

(***************************************************************************)
(* The codec on its own: encrypt one plaintext, possibly flip one bit of   *)
(* the envelope in transit, decrypt with the same chain key                *)
(***************************************************************************)
CodecMessages == StringsUpTo(MaxMsgLen)

\* chain keys of established sessions: the key createSession stores,
\* advanced up to MaxKeyPos times
CodecKeys ==
  {ChainAt(InitialChainKey(SharedSecretAt(t)), n) : t \in 0..MaxClock, n \in 0..MaxKeyPos}

\* the byte with only bit k set
Bit(k) == 2 ^ k

\* the hexadecimal string hex with bit k of its byte number n flipped
FlipBit(hex, n, k) ==
  LET b == ParseHexPair(SubSeq(hex, 2 * n - 1, 2 * n))
      flipped == HexOf(<<BitXor(b, Bit(k))>>)
  IN [i \in 1..Len(hex) |->
        IF i = 2 * n - 1 THEN flipped[1] ELSE IF i = 2 * n THEN flipped[2] ELSE hex[i]]

CodecInit ==
  /\ kdf = KdfIdle
  /\ AppInit
  /\ DirIdle
  /\ StoreInit
  /\ AccountInit
  /\ \E m \in CodecMessages, ck \in CodecKeys :
       codec = [pc |-> "start", message |-> m, chainKey |-> ck]

CodecEncrypt ==
  /\ codec.pc = "start"
  /\ LET encrypted == encryptMessage(codec.message, codec.chainKey)
     IN codec' = [pc |-> "sent", message |-> codec.message, chainKey |-> codec.chainKey,
                  ciphertext |-> encrypted.ciphertext, mac |-> encrypted.mac,
                  tamper |-> "none"]
  /\ UNCHANGED <<kdf, appVars, dirVars, storeVars, accountVars>>

\* one bit of the ciphertext changes in transit
CodecTamperCiphertext ==
  /\ codec.pc = "sent"
  /\ codec.tamper = "none"
  /\ \E n \in 1..(Len(codec.ciphertext) \div 2), k \in 0..7 :
       codec' = [codec EXCEPT !.ciphertext = FlipBit(@, n, k), !.tamper = "ciphertext"]
  /\ UNCHANGED <<kdf, appVars, dirVars, storeVars, accountVars>>

\* one bit of the tag changes in transit
CodecTamperMac ==
  /\ codec.pc = "sent"
  /\ codec.tamper = "none"
  /\ \E n \in 1..(Len(codec.mac) \div 2), k \in 0..7 :
       codec' = [codec EXCEPT !.mac = FlipBit(@, n, k), !.tamper = "mac"]
  /\ UNCHANGED <<kdf, appVars, dirVars, storeVars, accountVars>>

CodecDecrypt ==
  /\ codec.pc = "sent"
  /\ codec' = [pc |-> "done", message |-> codec.message, chainKey |-> codec.chainKey,
               ciphertext |-> codec.ciphertext, mac |-> codec.mac,
               tamper |-> codec.tamper,
               result |-> decryptMessage(codec.ciphertext, codec.mac, codec.chainKey)]
  /\ UNCHANGED <<kdf, appVars, dirVars, storeVars, accountVars>>

CodecNext ==
  \/ CodecEncrypt
  \/ CodecTamperCiphertext
  \/ CodecTamperMac
  \/ CodecDecrypt

SpecCodec == CodecInit /\ [][CodecNext]_vars

\* C1: decrypting an untouched envelope with the chain key it was encrypted
\* under succeeds and returns the plaintext that was encrypted.
RoundTrip ==
  (codec.pc = "done" /\ codec.tamper = "none")
    => (codec.result.ok /\ codec.result.message = codec.message)

\* C2: an envelope with one bit of its ciphertext or of its tag flipped is
\* rejected by decryptMessage, so no altered plaintext is returned.
TamperDetected ==
  (codec.pc = "done" /\ codec.tamper # "none") => ~codec.result.ok

====
